---- MODULE Spec2Model ----
(***************************************************************************)
(* Model of middleware.js, the Vercel edge middleware that rewrites the    *)
(* Open Graph / Twitter meta tags of dist/_empty.html for /users/:username *)
(* and /concepts/:slug requests.                                           *)
(*                                                                         *)
(* Text is a sequence of one-character strings, so that the regular        *)
(* expressions, split/join and the case conversions operate on the         *)
(* characters as the code does.  The JavaScript values undefined and null  *)
(* are one-element sequences holding a marker no text can contain.         *)
(* One behaviour is one invocation of middleware(request); it is cut at    *)
(* its two awaits.                                                         *)
(***************************************************************************)
EXTENDS Integers, Sequences, FiniteSets, TLC

VARIABLES pc, request, usersPathMatchResult, conceptsPathMatchResult,
          conceptTitle, conceptDescription, conceptData,
          pageImageUrl, pageTitle, pageDescription,
          indexFileText, console, fetches, metaResult, templateResult,
          nextCalls, result

vars == <<pc, request, usersPathMatchResult, conceptsPathMatchResult,
          conceptTitle, conceptDescription, conceptData,
          pageImageUrl, pageTitle, pageDescription,
          indexFileText, console, fetches, metaResult, templateResult,
          nextCalls, result>>

\* Longest request path, in pieces of PathPieces.
MaxPieces == 4

(***************************************************************************)
(* JavaScript values and text                                              *)
(***************************************************************************)
UNDEFINED == <<"<undefined>">>

NULL == <<"<null>">>

\* Template-literal / string conversion of a value.
JsToString(v) ==
  IF v = UNDEFINED THEN <<"u", "n", "d", "e", "f", "i", "n", "e", "d">>
  ELSE IF v = NULL THEN <<"n", "u", "l", "l">>
  ELSE v

LowerAlphabet == <<"a", "b", "c", "d", "e", "f", "g", "h", "i", "j", "k", "l", "m", "n", "o", "p", "q", "r", "s", "t", "u", "v", "w", "x", "y", "z">>

UpperAlphabet == <<"A", "B", "C", "D", "E", "F", "G", "H", "I", "J", "K", "L", "M", "N", "O", "P", "Q", "R", "S", "T", "U", "V", "W", "X", "Y", "Z">>

AlphabetIndex(alphabet, c) ==
  IF \E i \in 1..Len(alphabet) : alphabet[i] = c
  THEN CHOOSE i \in 1..Len(alphabet) : alphabet[i] = c
  ELSE 0

\* String.prototype.toUpperCase on one character.
ToUpperCase(c) ==
  IF AlphabetIndex(LowerAlphabet, c) # 0
  THEN UpperAlphabet[AlphabetIndex(LowerAlphabet, c)] ELSE c

\* String.prototype.toLowerCase on one character.
ToLowerCase(c) ==
  IF AlphabetIndex(UpperAlphabet, c) # 0
  THEN LowerAlphabet[AlphabetIndex(UpperAlphabet, c)] ELSE c

(***************************************************************************)
(* URL matching: url.match(/\/users\/([^/?]+)/) and the concepts twin      *)
(***************************************************************************)
UsersPrefix == <<"/", "u", "s", "e", "r", "s", "/">>

ConceptsPrefix == <<"/", "c", "o", "n", "c", "e", "p", "t", "s", "/">>

\* Variant of IsSegmentChar: the class written [^/], which admits '?'.
IsSegmentCharNoQuery(c) == c # "/"

\* The character class [^/?].
IsSegmentChar(c) == c \notin {"/", "?"}

\* The pattern  prefix([^/?]+)  matches at position i of url.
MatchesAt(url, prefix, i) ==
  /\ i + Len(prefix) <= Len(url)
  /\ url[i] = prefix[1]
  /\ SubSeq(url, i, i + Len(prefix) - 1) = prefix
  /\ IsSegmentChar(url[i + Len(prefix)])

\* End of the greedy run [^/?]+ that starts at position from.
RECURSIVE SegmentEnd(_, _)
SegmentEnd(url, from) ==
  IF from < Len(url) /\ IsSegmentChar(url[from + 1])
  THEN SegmentEnd(url, from + 1)
  ELSE from

\* Position of the leftmost match at or after position i, 0 when none.
RECURSIVE FirstMatch(_, _, _)
FirstMatch(url, prefix, i) ==
  IF i > Len(url) THEN 0
  ELSE IF MatchesAt(url, prefix, i) THEN i
  ELSE FirstMatch(url, prefix, i + 1)

\* String.prototype.match without the g flag: null, or capture group 1 of
\* the leftmost match.
PathMatch(url, prefix) ==
  LET i == FirstMatch(url, prefix, 1)
      from == i + Len(prefix)
  IN  IF i = 0 THEN NULL ELSE SubSeq(url, from, SegmentEnd(url, from))

\* Variant of Route: the two branches tested in the other order.
RouteConceptFirst(usersMatch, conceptsMatch) ==
  IF usersMatch = NULL /\ conceptsMatch = NULL THEN "none"
  ELSE IF conceptsMatch # NULL THEN "concept"
  ELSE "user"

\* The branch taken by the if / else-if chain.
Route(usersMatch, conceptsMatch) ==
  IF usersMatch = NULL /\ conceptsMatch = NULL THEN "none"
  ELSE IF usersMatch # NULL THEN "user"
  ELSE "concept"

(***************************************************************************)
(* Metadata derivation                                                     *)
(***************************************************************************)
UserPageImageUrl(username) == <<"h", "t", "t", "p", "s", ":", "/", "/", "o", "g", ".", "c", "o", "d", "e", "c", "r", "a", "f", "t", "e", "r", "s", ".", "i", "o", "/", "a", "p", "i", "/", "u", "s", "e", "r", "_", "p", "r", "o", "f", "i", "l", "e", "/">> \o JsToString(username)

\* Variant of UserPageTitle: the title without the site name.
UserPageTitleShort(username) == JsToString(username) \o <<"'", "s", " ", "P", "r", "o", "f", "i", "l", "e">>

UserPageTitle(username) == JsToString(username) \o <<"'", "s", " ", "C", "o", "d", "e", "C", "r", "a", "f", "t", "e", "r", "s", " ", "P", "r", "o", "f", "i", "l", "e">>

UserPageDescription(username) == <<"V", "i", "e", "w", " ">> \o JsToString(username) \o <<"'", "s", " ", "p", "r", "o", "f", "i", "l", "e", " ", "o", "n", " ", "C", "o", "d", "e", "C", "r", "a", "f", "t", "e", "r", "s">>

\* String.prototype.split('-')
RECURSIVE Split(_)
Split(s) ==
  IF \E i \in 1..Len(s) : s[i] = "-"
  THEN LET i == CHOOSE k \in 1..Len(s) :
                  s[k] = "-" /\ \A j \in 1..(k - 1) : s[j] # "-"
       IN  <<SubSeq(s, 1, i - 1)>> \o Split(SubSeq(s, i + 1, Len(s)))
  ELSE <<s>>

\* Array.prototype.join(' ')
RECURSIVE Join(_)
Join(words) ==
  IF Len(words) = 0 THEN <<>>
  ELSE IF Len(words) = 1 THEN words[1]
  ELSE words[1] \o <<" ">> \o Join(Tail(words))

\* Variant of Capitalize: the rest of the word is kept as written.
CapitalizeFirstOnly(word) ==
  [i \in 1..Len(word) |-> IF i = 1 THEN ToUpperCase(word[i]) ELSE word[i]]

\* word.charAt(0).toUpperCase() + word.slice(1).toLowerCase()
Capitalize(word) ==
  [i \in 1..Len(word) |-> IF i = 1 THEN ToUpperCase(word[i]) ELSE ToLowerCase(word[i])]

SlugToTitle(conceptSlug) ==
  LET words == Split(conceptSlug)
  IN  Join([i \in 1..Len(words) |-> Capitalize(words[i])])

FallbackDescription(title) == <<"V", "i", "e", "w", " ", "t", "h", "e", " ">> \o JsToString(title) \o <<" ", "c", "o", "n", "c", "e", "p", "t", " ", "o", "n", " ", "C", "o", "d", "e", "C", "r", "a", "f", "t", "e", "r", "s">>

ConceptDataUrl(conceptSlug) ==
  <<"h", "t", "t", "p", "s", ":", "/", "/", "b", "a", "c", "k", "e", "n", "d", ".", "c", "o", "d", "e", "c", "r", "a", "f", "t", "e", "r", "s", ".", "i", "o", "/", "s", "e", "r", "v", "i", "c", "e", "s", "/", "d", "y", "n", "a", "m", "i", "c", "_", "o", "g", "_", "i", "m", "a", "g", "e", "s", "/", "c", "o", "n", "c", "e", "p", "t", "_", "d", "a", "t", "a", "?", "i", "d", "_", "o", "r", "_", "s", "l", "u", "g", "=">> \o JsToString(conceptSlug)

ConceptPageImageUrl(conceptSlug) == <<"h", "t", "t", "p", "s", ":", "/", "/", "o", "g", ".", "c", "o", "d", "e", "c", "r", "a", "f", "t", "e", "r", "s", ".", "i", "o", "/", "a", "p", "i", "/", "c", "o", "n", "c", "e", "p", "t", "/">> \o JsToString(conceptSlug)

(***************************************************************************)
(* The concept-data fetch and its try / catch                              *)
(***************************************************************************)
\* conceptData before the assignment of line 69.
NoData == [type |-> "undefined", title |-> UNDEFINED, description_markdown |-> UNDEFINED]

CustomTitle == <<"C", "u", "s", "t", "o", "m", " ", "T", "i", "t", "l", "e">>

CustomDesc == <<"C", "u", "s", "t", "o", "m", " ", "d", "e", "s", "c">>

\* Values res.json() can resolve to: null, a primitive (or array), or an
\* object whose title / description_markdown are present or absent.
JsonBodies ==
  [type : {"null", "primitive"}, title : {UNDEFINED}, description_markdown : {UNDEFINED}]
    \cup [type : {"object"}, title : {UNDEFINED, CustomTitle},
          description_markdown : {UNDEFINED, CustomDesc}]

\* Ways fetch(...).then((res) => res.json()) settles: the fetch rejects, the
\* body is not JSON, or the body parses (whatever the HTTP status).
MetaOutcomes ==
  [kind : {"reject"}, status : {0}, body : {NoData}]
    \cup [kind : {"badjson"}, status : {200, 500}, body : {NoData}]
    \cup [kind : {"json"}, status : {200, 404}, body : JsonBodies]

NoMetaResult == [kind |-> "none", status |-> 0, body |-> NoData]

ConsoleEntry(level, message, arg) == [level |-> level, message |-> message, arg |-> arg]

\* What the catch block prints for the error named by message.
CatchLog(message) ==
  << ConsoleEntry("error", message, <<>>),
     ConsoleEntry("log", "ignoring error for now", <<>>) >>

\* Variant of ConceptMetadata: a failure inside the try leaves the title
\* undefined instead of the fallback (conceptTitle declared without one).
ConceptMetadataNoFallback(fallbackTitle, fallbackDescription, outcome) ==
  IF outcome.kind \in {"reject", "badjson"} \/ outcome.body.type = "null"
  THEN [conceptData |-> NoData, conceptTitle |-> UNDEFINED,
        conceptDescription |-> fallbackDescription, printed |-> CatchLog("Error")]
  ELSE [conceptData |-> outcome.body, conceptTitle |-> outcome.body.title,
        conceptDescription |-> outcome.body.description_markdown, printed |-> <<>>]

\* Variant of ConceptMetadata: the body is used only when res.ok.
ConceptMetadataOkOnly(fallbackTitle, fallbackDescription, outcome) ==
  IF outcome.kind = "reject"
  THEN [conceptData |-> NoData, conceptTitle |-> fallbackTitle,
        conceptDescription |-> fallbackDescription, printed |-> CatchLog("TypeError: fetch failed")]
  ELSE IF outcome.kind = "badjson" \/ outcome.status # 200
  THEN [conceptData |-> NoData, conceptTitle |-> fallbackTitle,
        conceptDescription |-> fallbackDescription, printed |-> CatchLog("SyntaxError")]
  ELSE IF outcome.body.type = "null"
  THEN [conceptData |-> outcome.body, conceptTitle |-> fallbackTitle,
        conceptDescription |-> fallbackDescription,
        printed |-> CatchLog("TypeError: cannot read properties of null")]
  ELSE [conceptData |-> outcome.body, conceptTitle |-> outcome.body.title,
        conceptDescription |-> outcome.body.description_markdown, printed |-> <<>>]

\* Variant of ConceptMetadata: an absent description keeps the fallback
\* (conceptData.description_markdown || conceptDescription).
ConceptMetadataKeepDescription(fallbackTitle, fallbackDescription, outcome) ==
  IF outcome.kind = "reject"
  THEN [conceptData |-> NoData, conceptTitle |-> fallbackTitle,
        conceptDescription |-> fallbackDescription, printed |-> CatchLog("TypeError: fetch failed")]
  ELSE IF outcome.kind = "badjson"
  THEN [conceptData |-> NoData, conceptTitle |-> fallbackTitle,
        conceptDescription |-> fallbackDescription, printed |-> CatchLog("SyntaxError")]
  ELSE IF outcome.body.type = "null"
  THEN [conceptData |-> outcome.body, conceptTitle |-> fallbackTitle,
        conceptDescription |-> fallbackDescription,
        printed |-> CatchLog("TypeError: cannot read properties of null")]
  ELSE [conceptData |-> outcome.body, conceptTitle |-> outcome.body.title,
        conceptDescription |->
          IF outcome.body.description_markdown = UNDEFINED THEN fallbackDescription
          ELSE outcome.body.description_markdown,
        printed |-> <<>>]

\* The try / catch of lines 68-78: the values of conceptData, conceptTitle
\* and conceptDescription after it, and what it printed.
ConceptMetadata(fallbackTitle, fallbackDescription, outcome) ==
  IF outcome.kind = "reject"
  THEN [conceptData |-> NoData, conceptTitle |-> fallbackTitle,
        conceptDescription |-> fallbackDescription, printed |-> CatchLog("TypeError: fetch failed")]
  ELSE IF outcome.kind = "badjson"
  THEN [conceptData |-> NoData, conceptTitle |-> fallbackTitle,
        conceptDescription |-> fallbackDescription, printed |-> CatchLog("SyntaxError")]
  ELSE IF outcome.body.type = "null"
  THEN \* conceptData.title throws before conceptTitle is assigned
       [conceptData |-> outcome.body, conceptTitle |-> fallbackTitle,
        conceptDescription |-> fallbackDescription,
        printed |-> CatchLog("TypeError: cannot read properties of null")]
  ELSE [conceptData |-> outcome.body, conceptTitle |-> outcome.body.title,
        conceptDescription |-> outcome.body.description_markdown, printed |-> <<>>]

(***************************************************************************)
(* The template and the substitutions                                      *)
(***************************************************************************)
Meta(attr, key, content) == [kind |-> "meta", attr |-> attr, key |-> key, content |-> content]

Other(text) == [kind |-> "other", attr |-> "", key |-> "", content |-> text]

\* dist/_empty.html as built, and a variant with the tags in another order
\* and other placeholder contents.
Templates ==
  { << Other(<<"<", "h", "e", "a", "d", ">">>),
       Meta("name", "viewport", <<"w", "i", "d", "t", "h">>),
       Meta("name", "description", <<"d", "0">>),
       Meta("property", "og:title", <<"t", "0">>),
       Meta("property", "og:description", <<"d", "0">>),
       Meta("property", "og:image", <<"i", "0">>),
       Meta("property", "og:type", <<"w", "e", "b", "s", "i", "t", "e">>),
       Meta("name", "twitter:title", <<"t", "0">>),
       Meta("name", "twitter:description", <<"d", "0">>),
       Meta("name", "twitter:image", <<"i", "0">>),
       Other(<<"<", "/", "h", "e", "a", "d", ">">>) >>,
    << Meta("name", "twitter:image", <<>>),
       Meta("name", "twitter:title", <<"x">>),
       Other(<<"<", "t", "i", "t", "l", "e", ">">>),
       Meta("name", "twitter:description", <<"y">>),
       Meta("property", "og:image", <<>>),
       Meta("property", "og:url", <<"u">>),
       Meta("property", "og:description", <<"y">>),
       Meta("property", "og:title", <<"x">>),
       Meta("name", "description", <<"z">>) >> }

\* Ways fetch(indexFileURL).then((res) => res.text()) settles.
TemplateOutcomes == [kind : {"reject"}, text : {<<>>}] \cup [kind : {"text"}, text : Templates]

NoTemplateResult == [kind |-> "none", text |-> <<>>]

\* app/utils/replace-meta-tag: sets the content attribute of the first meta
\* tag whose attribute attr has the value key; other text is untouched.
replaceMetaTag(text, attr, key, content) ==
  LET hit(i) == text[i].kind = "meta" /\ text[i].attr = attr /\ text[i].key = key
  IN  IF \E i \in 1..Len(text) : hit(i)
      THEN LET i == CHOOSE k \in 1..Len(text) : hit(k) /\ \A j \in 1..(k - 1) : ~hit(j)
           IN  [text EXCEPT ![i].content = JsToString(content)]
      ELSE text

\* Variant of Substitutions: twitter:title is given the description.
SubstitutionsTwitterSwapped(title, description, imageUrl) ==
  << <<"name", "description", description>>,
     <<"property", "og:title", title>>,
     <<"property", "og:description", description>>,
     <<"property", "og:image", imageUrl>>,
     <<"name", "twitter:title", description>>,
     <<"name", "twitter:description", description>>,
     <<"name", "twitter:image", imageUrl>> >>

\* The argument list of lines 95-103.
Substitutions(title, description, imageUrl) ==
  << <<"name", "description", description>>,
     <<"property", "og:title", title>>,
     <<"property", "og:description", description>>,
     <<"property", "og:image", imageUrl>>,
     <<"name", "twitter:title", title>>,
     <<"name", "twitter:description", description>>,
     <<"name", "twitter:image", imageUrl>> >>

\* [...].reduce((text, args) => replaceMetaTag(text, ...args), indexFileText)
RECURSIVE Reduce(_, _)
Reduce(text, list) ==
  IF Len(list) = 0 THEN text
  ELSE Reduce(replaceMetaTag(text, list[1][1], list[1][2], list[1][3]), Tail(list))

(***************************************************************************)
(* Outcomes of an invocation                                               *)
(***************************************************************************)
Pending == [kind |-> "pending", request |-> <<>>, status |-> 0, contentType |-> "", body |-> <<>>]

\* next(request) of @vercel/edge: continue with the given request.
PassDown(req) == [kind |-> "next", request |-> req, status |-> 0, contentType |-> "", body |-> <<>>]

\* Variant of HtmlResponse: the headers option is left out, so the string
\* body gets the default content type.
PlainResponse(responseText) ==
  [kind |-> "response", request |-> <<>>, status |-> 200,
   contentType |-> "text/plain;charset=UTF-8", body |-> responseText]

\* new Response(responseText, { headers: { 'Content-Type': 'text/html' } })
HtmlResponse(responseText) ==
  [kind |-> "response", request |-> <<>>, status |-> 200, contentType |-> "text/html",
   body |-> responseText]

\* The promise returned by middleware rejects.
Rejected == [kind |-> "rejected", request |-> <<>>, status |-> 0, contentType |-> "", body |-> <<>>]

\* Variant of Fetch: the call is made a second time.
FetchTwice(calls, target, url) ==
  Append(Append(calls, [target |-> target, url |-> url]), [target |-> target, url |-> url])

\* A call of the global fetch, appended to the calls made so far.
Fetch(calls, target, url) == Append(calls, [target |-> target, url |-> url])

IndexFileURL == <<".", "/", "d", "i", "s", "t", "/", "_", "e", "m", "p", "t", "y", ".", "h", "t", "m", "l">>

(***************************************************************************)
(* Requests                                                                *)
(***************************************************************************)
Origin == <<"h", "t", "t", "p", "s", ":", "/", "/", "h", ".", "i", "o">>

PathPieces == {UsersPrefix, ConceptsPrefix, <<"a", "B">>, <<"-", "B">>, <<"-">>, <<"/">>, <<"?">>}

RECURSIVE Paths(_)
Paths(n) ==
  IF n = 0 THEN {<<>>}
  ELSE LET shorter == Paths(n - 1)
       IN  shorter \cup {p \o q : p \in shorter, q \in PathPieces}

ExtraPaths ==
  { <<"/", "a", "b", "o", "u", "t">>, <<"/", "u", "s", "e", "r", "s">>, <<"/", "u", "s", "e", "r", "s", "/", "a", "l", "i", "c", "e">>, <<"/", "c", "o", "n", "c", "e", "p", "t", "s", "/", "n", "e", "t", "w", "o", "r", "k", "-", "p", "r", "o", "t", "o", "c", "o", "l", "s">>,
    <<"/", "c", "o", "n", "c", "e", "p", "t", "s", "/", "f", "o", "o", "/", "u", "s", "e", "r", "s", "/", "b", "a", "r">>, <<"/", "u", "s", "e", "r", "s", "/", "x", "/", "c", "o", "n", "c", "e", "p", "t", "s", "/", "y">> }

URLs == {Origin \o p : p \in Paths(MaxPieces) \cup ExtraPaths}

(***************************************************************************)
(* The invocation                                                          *)
(***************************************************************************)
Init ==
  /\ pc = "start"
  /\ request = <<>>
  /\ usersPathMatchResult = NULL
  /\ conceptsPathMatchResult = NULL
  /\ conceptTitle = UNDEFINED
  /\ conceptDescription = UNDEFINED
  /\ conceptData = NoData
  /\ pageImageUrl = UNDEFINED
  /\ pageTitle = UNDEFINED
  /\ pageDescription = UNDEFINED
  /\ indexFileText = <<>>
  /\ console = <<>>
  /\ fetches = <<>>
  /\ metaResult = NoMetaResult
  /\ templateResult = NoTemplateResult
  /\ nextCalls = <<>>
  /\ result = Pending

\* Lines 29-30, common to the three ways the invocation (pc = "start") begins.
Parse(url) ==
  /\ request' = url
  /\ usersPathMatchResult' = PathMatch(url, UsersPrefix)
  /\ conceptsPathMatchResult' = PathMatch(url, ConceptsPrefix)

\* Lines 33-39: neither pattern matches.
PassThrough(url) ==
  /\ Parse(url)
  /\ Route(usersPathMatchResult', conceptsPathMatchResult') = "none"
  /\ console' = Append(console,
        ConsoleEntry("error", "Unable to parse username or concept slug from the URL:", url))
  /\ nextCalls' = Append(nextCalls, url)
  /\ result' = PassDown(url)
  /\ pc' = "done"
  /\ UNCHANGED <<conceptTitle, conceptDescription, conceptData, pageImageUrl, pageTitle,
                 pageDescription, indexFileText, fetches, metaResult, templateResult>>

\* Lines 45-51 and 87-90: the user branch, up to the await of the template.
UserRoute(url) ==
  /\ Parse(url)
  /\ Route(usersPathMatchResult', conceptsPathMatchResult') = "user"
  /\ pageImageUrl' = UserPageImageUrl(usersPathMatchResult')
  /\ pageTitle' = UserPageTitle(usersPathMatchResult')
  /\ pageDescription' = UserPageDescription(usersPathMatchResult')
  /\ fetches' = Fetch(fetches, "template", IndexFileURL)
  /\ pc' = "awaitTemplate"
  /\ UNCHANGED <<conceptTitle, conceptDescription, conceptData, indexFileText, console,
                 metaResult, templateResult, nextCalls, result>>

\* Lines 52-69: the concept branch, up to the await of the concept data.
ConceptRoute(url) ==
  /\ Parse(url)
  /\ Route(usersPathMatchResult', conceptsPathMatchResult') = "concept"
  /\ conceptTitle' = SlugToTitle(conceptsPathMatchResult')
  /\ conceptDescription' = FallbackDescription(conceptTitle')
  /\ fetches' = Fetch(fetches, "concept_data", ConceptDataUrl(conceptsPathMatchResult'))
  /\ pc' = "awaitConceptData"
  /\ UNCHANGED <<conceptData, pageImageUrl, pageTitle, pageDescription, indexFileText,
                 console, metaResult, templateResult, nextCalls, result>>

\* Lines 69-90: the concept-data promise settles; the try / catch runs, the
\* page values are set and the template is requested.
ConceptDataSettled(outcome) ==
  /\ pc = "awaitConceptData"
  /\ metaResult' = outcome
  /\ LET after == ConceptMetadata(conceptTitle, conceptDescription, outcome)
     IN  /\ conceptData' = after.conceptData
         /\ conceptTitle' = after.conceptTitle
         /\ conceptDescription' = after.conceptDescription
         /\ console' = console \o after.printed
         /\ pageTitle' = after.conceptTitle
         /\ pageDescription' = after.conceptDescription
  /\ pageImageUrl' = ConceptPageImageUrl(conceptsPathMatchResult)
  /\ fetches' = Fetch(fetches, "template", IndexFileURL)
  /\ pc' = "awaitTemplate"
  /\ UNCHANGED <<request, usersPathMatchResult, conceptsPathMatchResult, indexFileText,
                 templateResult, nextCalls, result>>

\* Lines 90-106: the template text arrives; substitute and respond.
TemplateLoaded(outcome) ==
  /\ pc = "awaitTemplate"
  /\ outcome.kind = "text"
  /\ templateResult' = outcome
  /\ indexFileText' = outcome.text
  /\ result' = HtmlResponse(Reduce(outcome.text,
                   Substitutions(pageTitle, pageDescription, pageImageUrl)))
  /\ pc' = "done"
  /\ UNCHANGED <<request, usersPathMatchResult, conceptsPathMatchResult, conceptTitle,
                 conceptDescription, conceptData, pageImageUrl, pageTitle, pageDescription,
                 console, fetches, metaResult, nextCalls>>

\* Line 90: the template promise rejects; nothing catches it.
TemplateFailed(outcome) ==
  /\ pc = "awaitTemplate"
  /\ outcome.kind = "reject"
  /\ templateResult' = outcome
  /\ result' = Rejected
  /\ pc' = "done"
  /\ UNCHANGED <<request, usersPathMatchResult, conceptsPathMatchResult, conceptTitle,
                 conceptDescription, conceptData, pageImageUrl, pageTitle, pageDescription,
                 indexFileText, console, fetches, metaResult, nextCalls>>

Next ==
  \/ pc = "start" /\ \E url \in URLs : PassThrough(url)
  \/ pc = "start" /\ \E url \in URLs : UserRoute(url)
  \/ pc = "start" /\ \E url \in URLs : ConceptRoute(url)
  \/ \E outcome \in MetaOutcomes : ConceptDataSettled(outcome)
  \/ \E outcome \in TemplateOutcomes : TemplateLoaded(outcome)
  \/ \E outcome \in TemplateOutcomes : TemplateFailed(outcome)

Spec == Init /\ [][Next]_vars

(***************************************************************************)
(* Properties                                                              *)
(***************************************************************************)
\* url contains prefix directly followed by a character other than '/', '?'.
HasSegment(url, prefix) ==
  \E i \in 1..Len(url) :
    /\ i + Len(prefix) <= Len(url)
    /\ \A k \in 1..Len(prefix) : url[i + k - 1] = prefix[k]
    /\ url[i + Len(prefix)] # "/"
    /\ url[i + Len(prefix)] # "?"

Started == pc # "start"

OnUserRoute == Started /\ HasSegment(request, UsersPrefix)

OnConceptRoute ==
  Started /\ ~HasSegment(request, UsersPrefix) /\ HasSegment(request, ConceptsPrefix)

FetchCount(target) == Cardinality({i \in 1..Len(fetches) : fetches[i].target = target})

\* Content of the first meta tag attr="key" of text (empty when missing).
TagContent(text, attr, key) ==
  LET hits == {i \in 1..Len(text) :
                 text[i].kind = "meta" /\ text[i].attr = attr /\ text[i].key = key}
  IN  IF hits = {} THEN <<>>
      ELSE text[CHOOSE i \in hits : \A j \in hits : i <= j].content

\* C1: a request whose URL matches neither /users/<segment> nor
\* /concepts/<segment> logs one error, makes no fetch (metadata or template),
\* builds no HTML and returns next(request) for the unmodified request.
C1_PassThrough ==
  (Started /\ ~HasSegment(request, UsersPrefix) /\ ~HasSegment(request, ConceptsPrefix))
    => /\ pc = "done"
       /\ Len(console) = 1
       /\ console[1].level = "error"
       /\ console[1].arg = request
       /\ fetches = <<>>
       /\ indexFileText = <<>>
       /\ nextCalls = <<request>>
       /\ result.kind = "next"
       /\ result.request = request
       /\ result.body = <<>>

C1_Witness ==
  /\ pc = "done"
  /\ request = Origin \o UsersPrefix
  /\ result.kind = "next"
  /\ Len(console) = 1

\* C2 as written: on the user route the title is the username followed by
\* "'s Profile" and the description is "View <username>'s profile".
C2_AsWritten ==
  OnUserRoute
    => /\ pageTitle = usersPathMatchResult \o <<"'", "s", " ", "P", "r", "o", "f", "i", "l", "e">>
       /\ pageDescription = <<"V", "i", "e", "w", " ">> \o usersPathMatchResult \o <<"'", "s", " ", "p", "r", "o", "f", "i", "l", "e">>

\* C2 (amended): on the user route with username u the title is u followed
\* by "'s CodeCrafters Profile", the description is "View u's profile on
\* CodeCrafters", the image URL is the user_profile template with u appended,
\* and no metadata-service fetch is made.
C2_UserMetadata ==
  OnUserRoute
    => /\ usersPathMatchResult # NULL
       /\ pageTitle = usersPathMatchResult \o <<"'", "s", " ", "C", "o", "d", "e", "C", "r", "a", "f", "t", "e", "r", "s", " ", "P", "r", "o", "f", "i", "l", "e">>
       /\ pageDescription = <<"V", "i", "e", "w", " ">> \o usersPathMatchResult \o <<"'", "s", " ", "p", "r", "o", "f", "i", "l", "e", " ", "o", "n", " ", "C", "o", "d", "e", "C", "r", "a", "f", "t", "e", "r", "s">>
       /\ pageImageUrl = <<"h", "t", "t", "p", "s", ":", "/", "/", "o", "g", ".", "c", "o", "d", "e", "c", "r", "a", "f", "t", "e", "r", "s", ".", "i", "o", "/", "a", "p", "i", "/", "u", "s", "e", "r", "_", "p", "r", "o", "f", "i", "l", "e", "/">> \o usersPathMatchResult
       /\ FetchCount("concept_data") = 0
       /\ metaResult.kind = "none"

C2_Witness ==
  /\ pc = "done"
  /\ request = Origin \o <<"/", "u", "s", "e", "r", "s", "/", "a", "l", "i", "c", "e">>
  /\ usersPathMatchResult = <<"a", "l", "i", "c", "e">>
  /\ result.kind = "response"

MetaFetchFailed == metaResult.kind \in {"reject", "badjson"}

\* The fallback title and description, written out from the slug.
ExpectedFallbackTitle(slug) ==
  [i \in 1..Len(slug) |->
     IF slug[i] = "-" THEN " "
     ELSE IF i = 1 THEN ToUpperCase(slug[i])
     ELSE IF slug[i - 1] = "-" THEN ToUpperCase(slug[i])
     ELSE ToLowerCase(slug[i])]

ExpectedFallbackDescription(slug) ==
  <<"V", "i", "e", "w", " ", "t", "h", "e", " ">> \o ExpectedFallbackTitle(slug) \o <<" ", "c", "o", "n", "c", "e", "p", "t">> \o <<" ", "o", "n", " ", "C", "o", "d", "e", "C", "r", "a", "f", "t", "e", "r", "s">>

\* C3 as written: after a failed metadata fetch the handler always returns
\* the HTML response.
C3_AsWritten ==
  (MetaFetchFailed /\ pc = "done") => result.kind = "response"

\* C3 (amended): when the metadata fetch rejects or its body is not JSON,
\* the error is logged and swallowed, the slug-derived fallbacks are the page
\* title and description, the template read is issued, and the handler returns
\* the HTML response carrying the fallbacks whenever that read succeeds; it
\* rejects only when the template read itself rejects.
C3_MetadataFailureSwallowed ==
  MetaFetchFailed
    => /\ pc \in {"awaitTemplate", "done"}
       /\ Len(console) = 2
       /\ console[1].level = "error"
       /\ pageTitle = ExpectedFallbackTitle(conceptsPathMatchResult)
       /\ pageDescription = ExpectedFallbackDescription(conceptsPathMatchResult)
       /\ FetchCount("template") = 1
       /\ (pc = "done" /\ templateResult.kind = "text")
            => /\ result.kind = "response"
               /\ TagContent(result.body, "property", "og:title") = pageTitle
               /\ TagContent(result.body, "property", "og:description") = pageDescription
       /\ (pc = "done" /\ result.kind # "response") => templateResult.kind = "reject"

C3_Witness ==
  /\ pc = "done"
  /\ metaResult.kind = "badjson"
  /\ conceptsPathMatchResult = <<"n", "e", "t", "w", "o", "r", "k", "-", "p", "r", "o", "t", "o", "c", "o", "l", "s">>
  /\ result.kind = "response"
  /\ TagContent(result.body, "property", "og:title") = <<"N", "e", "t", "w", "o", "r", "k", " ", "P", "r", "o", "t", "o", "c", "o", "l", "s">>

MetaParsed == metaResult.kind = "json"

\* C4 as written: for every parsed body the page title and description are
\* the body's title and description_markdown.
C4_AsWritten ==
  MetaParsed
    => /\ pageTitle = metaResult.body.title
       /\ pageDescription = metaResult.body.description_markdown

\* C4 (amended): when the body parses to anything but null, the page title
\* and description are exactly its title and description_markdown (undefined
\* for an absent field), whatever the HTTP status; when it parses to null the
\* property read throws inside the try and both fallbacks are kept.
C4_ServiceValuesUsed ==
  MetaParsed
    => IF metaResult.body.type = "null"
       THEN /\ pageTitle = ExpectedFallbackTitle(conceptsPathMatchResult)
            /\ pageDescription = ExpectedFallbackDescription(conceptsPathMatchResult)
       ELSE /\ pageTitle = metaResult.body.title
            /\ pageDescription = metaResult.body.description_markdown
            /\ pageTitle # ExpectedFallbackTitle(conceptsPathMatchResult)
            /\ pageDescription # ExpectedFallbackDescription(conceptsPathMatchResult)

C4_Witness ==
  /\ pc = "done"
  /\ metaResult.kind = "json"
  /\ metaResult.status = 404
  /\ metaResult.body.type = "object"
  /\ pageTitle = CustomTitle
  /\ pageDescription = UNDEFINED
  /\ result.kind = "response"

\* C5 as written: every invocation ends in pass-through or in the HTML
\* response, never in an error outcome.
C5_AsWritten ==
  pc = "done" => result.kind \in {"next", "response"}

\* C5 (amended): every invocation ends in exactly one of three ways:
\* pass-through to the next handler, an HTTP 200 response with Content-Type
\* text/html whose body is the template with its tags rewritten, or a
\* rejection, which happens only when the template read rejects; no outcome
\* of the metadata fetch leads to an error outcome.
C5_Outcomes ==
  /\ pc # "done" => result = Pending
  /\ pc = "done"
       => \/ /\ result.kind = "next"
             /\ fetches = <<>>
          \/ /\ result.kind = "response"
             /\ result.status = 200
             /\ result.contentType = "text/html"
             /\ templateResult.kind = "text"
             /\ Len(result.body) = Len(templateResult.text)
             /\ TagContent(result.body, "property", "og:image") = pageImageUrl
          \/ /\ result.kind = "rejected"
             /\ templateResult.kind = "reject"

C5_Witness ==
  /\ pc = "done"
  /\ result.kind = "rejected"
  /\ metaResult.kind = "reject"
  /\ templateResult.kind = "reject"

TitleTag(n) ==
  n.kind = "meta" /\ <<n.attr, n.key>> \in {<<"property", "og:title">>, <<"name", "twitter:title">>}

DescriptionTag(n) ==
  /\ n.kind = "meta"
  /\ <<n.attr, n.key>> \in {<<"name", "description">>, <<"property", "og:description">>,
                            <<"name", "twitter:description">>}

ImageTag(n) ==
  n.kind = "meta" /\ <<n.attr, n.key>> \in {<<"property", "og:image">>, <<"name", "twitter:image">>}

\* C6: in every HTML response the three description tags carry the page
\* description, the two title tags the page title, the two image tags the
\* page image URL, and everything else equals the template that was read.
C6_SevenTags ==
  result.kind = "response"
    => /\ Len(result.body) = Len(indexFileText)
       /\ \A i \in 1..Len(indexFileText) :
            LET n == indexFileText[i]
                m == result.body[i]
            IN  /\ m.kind = n.kind
                /\ m.attr = n.attr
                /\ m.key = n.key
                /\ m.content = IF TitleTag(n) THEN JsToString(pageTitle)
                               ELSE IF DescriptionTag(n) THEN JsToString(pageDescription)
                               ELSE IF ImageTag(n) THEN JsToString(pageImageUrl)
                               ELSE n.content
       /\ Cardinality({i \in 1..Len(result.body) : TitleTag(result.body[i])}) = 2
       /\ Cardinality({i \in 1..Len(result.body) : DescriptionTag(result.body[i])}) = 3
       /\ Cardinality({i \in 1..Len(result.body) : ImageTag(result.body[i])}) = 2

C6_Witness ==
  /\ result.kind = "response"
  /\ pageTitle = CustomTitle
  /\ pageDescription = CustomDesc
  /\ TagContent(result.body, "name", "twitter:title") = CustomTitle
  /\ TagContent(result.body, "name", "twitter:description") = CustomDesc
  /\ TagContent(result.body, "name", "viewport") = <<"w", "i", "d", "t", "h">>

\* C7: the fallback title is the slug with every '-' turned into a space,
\* the first character of every hyphen-separated piece upper-cased and the
\* others lower-cased (empty pieces stay empty); the fallback description is
\* "View the " + title + " concept" + " on CodeCrafters".
C7_FallbackTitle ==
  pc = "awaitConceptData"
    => /\ conceptTitle = ExpectedFallbackTitle(conceptsPathMatchResult)
       /\ Len(conceptTitle) = Len(conceptsPathMatchResult)
       /\ conceptsPathMatchResult = <<"n", "e", "t", "w", "o", "r", "k", "-", "p", "r", "o", "t", "o", "c", "o", "l", "s">>
            => conceptTitle = <<"N", "e", "t", "w", "o", "r", "k", " ", "P", "r", "o", "t", "o", "c", "o", "l", "s">>
       /\ conceptDescription = <<"V", "i", "e", "w", " ", "t", "h", "e", " ">> \o conceptTitle \o <<" ", "c", "o", "n", "c", "e", "p", "t">> \o <<" ", "o", "n", " ", "C", "o", "d", "e", "C", "r", "a", "f", "t", "e", "r", "s">>

C7_Witness ==
  /\ pc = "awaitConceptData"
  /\ conceptsPathMatchResult = <<"a", "B", "-", "-", "B">>
  /\ conceptTitle = <<"A", "b", " ", " ", "B">>

\* C8: at most one metadata fetch (exactly one on the concept route, none on
\* the user route), exactly one template read on every handled route, the
\* template read issued only after the metadata fetch has settled, and no
\* fetch repeated after a failure.
C8_FetchOrder ==
  /\ FetchCount("concept_data") <= 1
  /\ FetchCount("template") <= 1
  /\ Len(fetches) = FetchCount("concept_data") + FetchCount("template")
  /\ OnConceptRoute => FetchCount("concept_data") = 1 /\ fetches[1].target = "concept_data"
  /\ OnUserRoute => FetchCount("concept_data") = 0
  /\ (OnUserRoute \/ (OnConceptRoute /\ pc # "awaitConceptData")) => FetchCount("template") = 1
  /\ pc = "awaitConceptData" => metaResult.kind = "none" /\ FetchCount("template") = 0
  /\ (OnConceptRoute /\ FetchCount("template") = 1)
       => metaResult.kind # "none" /\ fetches[2].target = "template"
  /\ pc = "done" => (templateResult.kind = "none" <=> fetches = <<>>)

C8_Witness ==
  /\ pc = "done"
  /\ metaResult.kind = "reject"
  /\ templateResult.kind = "reject"
  /\ Len(fetches) = 2
  /\ fetches[1].target = "concept_data"
  /\ fetches[2].target = "template"

BothMatch == Started /\ HasSegment(request, UsersPrefix) /\ HasSegment(request, ConceptsPrefix)

\* C9: when the URL matches both patterns the user branch is taken: the
\* metadata is the user-profile metadata of the captured username, the
\* concept branch is not entered and no metadata fetch is issued; the concept
\* branch is entered only when the users pattern does not match.
C9_UserBranchFirst ==
  /\ BothMatch
       => /\ pageTitle = usersPathMatchResult \o <<"'", "s", " ", "C", "o", "d", "e", "C", "r", "a", "f", "t", "e", "r", "s", " ", "P", "r", "o", "f", "i", "l", "e">>
          /\ pageImageUrl = <<"h", "t", "t", "p", "s", ":", "/", "/", "o", "g", ".", "c", "o", "d", "e", "c", "r", "a", "f", "t", "e", "r", "s", ".", "i", "o", "/", "a", "p", "i", "/", "u", "s", "e", "r", "_", "p", "r", "o", "f", "i", "l", "e", "/">> \o usersPathMatchResult
          /\ conceptTitle = UNDEFINED
          /\ conceptDescription = UNDEFINED
          /\ FetchCount("concept_data") = 0
          /\ metaResult.kind = "none"
  /\ (conceptTitle # UNDEFINED \/ FetchCount("concept_data") > 0 \/ pc = "awaitConceptData")
       => ~HasSegment(request, UsersPrefix)

C9_Witness ==
  /\ pc = "done"
  /\ request = Origin \o <<"/", "c", "o", "n", "c", "e", "p", "t", "s", "/", "f", "o", "o", "/", "u", "s", "e", "r", "s", "/", "b", "a", "r">>
  /\ conceptsPathMatchResult = <<"f", "o", "o">>
  /\ usersPathMatchResult = <<"b", "a", "r">>
  /\ pageTitle = <<"b", "a", "r", "'", "s", " ", "C", "o", "d", "e", "C", "r", "a", "f", "t", "e", "r", "s", " ", "P", "r", "o", "f", "i", "l", "e">>
  /\ result.kind = "response"

\* C10: on the concept route, after any outcome of the metadata fetch, the
\* page title and description are both the fallbacks (rejection, parse
\* failure, null) or both the values read from the response (primitive,
\* object); they are never of mixed origin.
C10_SameOrigin ==
  (OnConceptRoute /\ pc \in {"awaitTemplate", "done"})
    => LET fromFallback == {f \in {"title"} : pageTitle = ExpectedFallbackTitle(conceptsPathMatchResult)}
                             \cup {f \in {"description"} :
                                     pageDescription = ExpectedFallbackDescription(conceptsPathMatchResult)}
           fromService == {f \in {"title"} : pageTitle = metaResult.body.title}
                             \cup {f \in {"description"} : pageDescription = metaResult.body.description_markdown}
       IN  /\ fromFallback \in {{}, {"title", "description"}}
           /\ (MetaFetchFailed \/ metaResult.body.type = "null")
                => fromFallback = {"title", "description"}
           /\ (MetaParsed /\ metaResult.body.type \in {"primitive", "object"})
                => fromFallback = {} /\ fromService = {"title", "description"}

C10_Witness ==
  /\ pc = "awaitTemplate"
  /\ metaResult.kind = "json"
  /\ metaResult.body.type = "primitive"
  /\ pageTitle = UNDEFINED
  /\ pageDescription = UNDEFINED

====
